---------------------------- MODULE Spec2Model ----------------------------
(***************************************************************************)
(* Auto-Typer: the planning engine (src/src/engine) and the batch executor *)
(* (src/src/App.tsx, src/electron/main.js).                                *)
(*                                                                         *)
(* Delays are exact rationals kept as integers in units of 1/Scale ms.     *)
(* Every Math.random() call is a draw r in thousandths (0..999), taken     *)
(* from a small set of values; probabilities are kept in units of 1e-5.    *)
(* Text is a sequence of one-character strings, indexed from 0 as in the   *)
(* source (At(text, i) is text[i]).                                        *)
(***************************************************************************)
EXTENDS Integers, Sequences, FiniteSets, Bags, TLC

VARIABLES
  \* ---- planTyping (planning.ts) ----
  text,             \* the text argument
  settings,         \* the settings argument
  index,            \* let index
  events,           \* const events
  burstCounter,     \* let burstCounter
  burstMultiplier,  \* let burstMultiplier, in tenths (10 is 1.0)
  pc,               \* "loop" inside the while loop, "done" after the return
  totalTimeMs,      \* the returned plan's totalTimeMs
  lastStep,         \* the iteration just made: its branch, its index, the newIndex reported
  mag,              \* the value the magnitude draws (randomBetween) of this planning run take
  \* ---- the executor (App.tsx) ----
  isTyping,             \* useState
  isPaused,             \* useState
  progress,             \* useState, in whole percent
  eventsRef,            \* eventsRef.current
  currentIndexRef,      \* currentIndexRef.current
  shouldStopRef,        \* shouldStopRef.current
  typingTimeoutRef,     \* typingTimeoutRef.current: a timer id, 0 for null
  timers,               \* the pending setTimeout(processBatch, 0) callbacks
  startsPending,        \* handleStart calls waiting in their 1 second delay
  batchSize,            \* const BATCH_SIZE of processBatch
  startTimeRef,         \* startTimeRef.current
  pauseTimeRef,         \* pauseTimeRef.current
  elapsedTime,          \* useState: the elapsed time shown
  \* ---- the injection layer (main.js) ----
  inflight,             \* type-batch requests sent and not yet resolved, each with its osascript process
  currentTypingProcess, \* let currentTypingProcess: a request id, 0 for null
  injected,             \* the keystrokes System Events has performed: a bag of events
  sent,                 \* the type-batch payloads, concatenated in send order
  lastReply,            \* how the most recent type-batch call was answered
  \* ---- the user ----
  lastAction,           \* the most recent control used
  startsLeft,           \* Start presses still allowed
  \* ---- time ----
  now,                  \* Date.now(), in ticks
  activeTime,           \* ticks spent not paused since typing began
  pausedFor,            \* ticks spent paused since the last Pause
  \* ---- a function of the engine called on its own ----
  fn,                   \* the function called, "none" before the call
  fnArgs,               \* its arguments
  fnRet                 \* what it returned

planVars == <<text, settings, index, events, burstCounter, burstMultiplier,
              pc, totalTimeMs, lastStep, mag>>

uiVars == <<isTyping, isPaused, progress, eventsRef, currentIndexRef, shouldStopRef,
            typingTimeoutRef, timers, startsPending>>

mainVars == <<inflight, currentTypingProcess, injected, sent>>

clockVars == <<now, startTimeRef, pauseTimeRef, elapsedTime, activeTime, pausedFor>>

appVars == <<uiVars, mainVars, clockVars, batchSize, lastReply, lastAction, startsLeft>>

callVars == <<fn, fnArgs, fnRet>>

execVars == <<appVars, callVars>>

vars == <<planVars, execVars>>

-----------------------------------------------------------------------------
(* Units and bounds *)

Scale == 100 * 100          \* delay units per millisecond
ProbScale == 1000 * 100     \* probability units per 1.0

MaxLen == 3                 \* longest text planned

Alphabet == {"a", " ", "("}

\* createTranspositionMistake returning null: no sequence
Null == [events |-> <<>>, newIndex |-> -1]
NoChar == ""

\* The values a Math.random() call takes, in thousandths.
Draws == {0, 999}
\* One value in each band of decideExtraLettersAfterMistake.
ExtraDraws == {0, 400, 700, 900}

\* Math.random() results that give each of the burst lengths 3, 4 and 5
LenDraws == {0, 500, 999}

-----------------------------------------------------------------------------
(* Characters *)

Lower == <<"a","b","c","d","e","f","g","h","i","j","k","l","m",
           "n","o","p","q","r","s","t","u","v","w","x","y","z">>
Upper == <<"A","B","C","D","E","F","G","H","I","J","K","L","M",
           "N","O","P","Q","R","S","T","U","V","W","X","Y","Z">>

LowerLetters == {Lower[i] : i \in 1..26}
UpperLetters == {Upper[i] : i \in 1..26}

toLowerCase(c) ==
  IF c \in UpperLetters THEN Lower[CHOOSE i \in 1..26 : Upper[i] = c] ELSE c

toUpperCase(c) ==
  IF c \in LowerLetters THEN Upper[CHOOSE i \in 1..26 : Lower[i] = c] ELSE c

\* text[i]: undefined outside 0 <= i < text.length
Undefined == "undefined"
At(t, i) == IF i >= 0 /\ i < Len(t) THEN t[i + 1] ELSE Undefined

\* s.includes(c) for a one-character or empty c: the empty string is included in every string
Includes(set, c) == c = "" \/ c \in set

Max(a, b) == IF a >= b THEN a ELSE b
Min(a, b) == IF a <= b THEN a ELSE b

-----------------------------------------------------------------------------
(* timing.ts *)

\* randomBetween(min, max) = floor(Math.random() * (max - min + 1)) + min, for integers
randomBetween(min, max, r) == ((r * (max - min + 1)) \div 1000) + min

\* randomBetween on arguments given in tenths (0.3 is 3): the floor is an integer,
\* so the result is min plus a whole number
randomBetweenTenths(minT, maxT, r) == (((r * (maxT - minT + 10)) \div 10000) * 10) + minT

\* timing.ts 7-12 without the 5 characters per word
wpmToBaseDelayMs_PerWord(wpm) == (60000 * Scale) \div wpm

wpmToBaseDelayMs(wpm) == (12000 * Scale) \div wpm

Symbols == {"!","@","#","$","%","^","&","*","(",")","_","+","{","}","|",":","\"","<",">","?","~"}

\* timing.ts 17-41 without the upper-case branch
getBaseDelayForChar_NoShift(char, s, r) ==
  LET baseDelay == wpmToBaseDelayMs(s.wpm) IN
  IF Includes(Symbols, char) THEN baseDelay + randomBetween(30, 80, r) * Scale
  ELSE IF char = " " \/ char = "\t" THEN (baseDelay \div 10) * 9
  ELSE IF char = "\n" THEN (baseDelay \div 10) * 12
  ELSE baseDelay

getBaseDelayForChar(char, s, r) ==
  LET baseDelay == wpmToBaseDelayMs(s.wpm) IN
  IF char \in UpperLetters THEN baseDelay + randomBetween(20, 50, r) * Scale
  ELSE IF Includes(Symbols, char) THEN baseDelay + randomBetween(30, 80, r) * Scale
  ELSE IF char = " " \/ char = "\t" THEN (baseDelay \div 10) * 9
  ELSE IF char = "\n" THEN (baseDelay \div 10) * 12
  ELSE baseDelay

minOffset(s) == CASE s.speedRandomness = 0 -> -10
                  [] s.speedRandomness = 1 -> -60
                  [] s.speedRandomness = 2 -> -120
                  [] OTHER -> -60

maxOffset(s) == CASE s.speedRandomness = 0 -> 10
                  [] s.speedRandomness = 1 -> 80
                  [] s.speedRandomness = 2 -> 150
                  [] OTHER -> 80

addRandomNoiseToDelay(baseDelayMs, s, r) ==
  LET randomOffset == randomBetween(minOffset(s), maxOffset(s), r) * Scale
      finalDelay == baseDelayMs + randomOffset
  IN Max(finalDelay, 30 * Scale)

Whitespace == {" ", "\n", "\t"}

RECURSIVE getUpcomingWordLength(_, _)
getUpcomingWordLength(t, i) ==
  IF i >= Len(t) \/ At(t, i) \in Whitespace THEN 0
  ELSE 1 + getUpcomingWordLength(t, i + 1)

getContextExtraDelay(t, i, s, r) ==
  IF ~s.usePunctuationPauses /\ ~s.useLongWordPauses THEN 0
  ELSE
    LET char == At(t, i)
        prevChar == IF i > 0 THEN At(t, i - 1) ELSE ""
        prevPrevChar == IF i > 1 THEN At(t, i - 2) ELSE ""
        wordLength == getUpcomingWordLength(t, i)
        punct == IF s.usePunctuationPauses /\ Includes({".", ",", ";", ":", "!", "?"}, prevChar)
                 THEN randomBetween(200, 500, r) ELSE 0
        sentence == IF s.usePunctuationPauses /\ prevChar = " "
                       /\ Includes({".", "?", "!"}, prevPrevChar) /\ char # " "
                    THEN randomBetween(300, 800, r) ELSE 0
        longWord == IF ~s.useLongWordPauses THEN 0
                    ELSE IF wordLength >= 10 THEN randomBetween(200, 400, r)
                    ELSE IF wordLength >= 8 THEN randomBetween(100, 250, r)
                    ELSE 0
        paragraph == IF char = "\n" /\ prevChar = "\n" THEN randomBetween(500, 1000, r) ELSE 0
    IN (punct + sentence + longWord + paragraph) * Scale

\* the multiplier in tenths: 10 when bursts are off or the 15% gate does not fire
getBurstTypingMultiplier(s, rGate, rMul) ==
  IF ~s.useBursts THEN 10
  ELSE IF rGate < 150 THEN randomBetweenTenths(3, 5, rMul)
  ELSE 10

getBackspaceDelay(s, r) ==
  LET baseDelay == randomBetween(60, 120, r)
      noise == randomBetween(-20, 30, r)
  IN Max(baseDelay + noise, 40) * Scale

-----------------------------------------------------------------------------
(* humanBehavior.ts *)

\* progress = position / totalLength, compared as exact fractions
adjustSpeedOverTime(position, totalLength) ==
  IF position * 100 < 5 * totalLength THEN 115
  ELSE IF position * 10 > 2 * totalLength /\ position * 10 < 8 * totalLength THEN 95
  ELSE IF position * 100 > 95 * totalLength THEN 105
  ELSE 100

shouldInsertMicroPause(s, r) == IF ~s.useMicroPauses THEN FALSE ELSE r < 50

getMicroPauseDelay(r) == randomBetween(100, 300, r) * Scale

shouldInsertThinkingPause(t, i, s, r) ==
  IF ~s.useThinkingPauses THEN FALSE
  ELSE
    LET char == At(t, i)
        prevChar == IF i > 0 THEN At(t, i - 1) ELSE ""
    IN IF char = "(" \/ char = "\"" \/ char = "'" THEN r < 300
       ELSE IF prevChar = " " /\ i > 1 /\ Includes({".", "?", "!"}, At(t, i - 2)) THEN r < 200
       ELSE IF getUpcomingWordLength(t, i) > 10 THEN r < 150
       ELSE FALSE

getThinkingPauseDelay(r) == randomBetween(500, 1500, r) * Scale

\* a reduce that stops one event short
RECURSIVE estimateTotalTime_DropLast(_)
estimateTotalTime_DropLast(evs) ==
  IF Len(evs) <= 1 THEN 0 ELSE evs[1].delayMs + estimateTotalTime_DropLast(Tail(evs))

RECURSIVE estimateTotalTime(_)
estimateTotalTime(evs) ==
  IF evs = <<>> THEN 0 ELSE evs[1].delayMs + estimateTotalTime(Tail(evs))

isStartOfWord(t, i) ==
  IF i = 0 THEN TRUE ELSE At(t, i - 1) \in {" ", "\n", "\t"}

-----------------------------------------------------------------------------
(* mistakes.ts *)

KEYBOARD_NEIGHBORS ==
  [a |-> <<"q","w","s","z">>,          b |-> <<"v","g","h","n">>,
   c |-> <<"x","d","f","v">>,          d |-> <<"s","e","r","f","c","x">>,
   e |-> <<"w","s","d","r">>,          f |-> <<"d","r","t","g","v","c">>,
   g |-> <<"f","t","y","h","b","v">>,  h |-> <<"g","y","u","j","n","b">>,
   i |-> <<"u","j","k","o">>,          j |-> <<"h","u","i","k","m","n">>,
   k |-> <<"j","i","o","l","m">>,      l |-> <<"k","o","p">>,
   m |-> <<"n","j","k">>,              n |-> <<"b","h","j","m">>,
   o |-> <<"i","k","l","p">>,          p |-> <<"o","l">>,
   q |-> <<"w","a">>,                  r |-> <<"e","d","f","t">>,
   s |-> <<"a","w","e","d","x","z">>,  t |-> <<"r","f","g","y">>,
   u |-> <<"y","h","j","i">>,          v |-> <<"c","f","g","b">>,
   w |-> <<"q","a","s","e">>,          x |-> <<"z","s","d","c">>,
   y |-> <<"t","g","h","u">>,          z |-> <<"a","s","x">>]

TypeEvent(c, d) == [type |-> "type", char |-> c, delayMs |-> d]
DeleteEvent(d) == [type |-> "delete", char |-> NoChar, delayMs |-> d]

adjustMistakeProbabilityOverTime(t, i, baseProbability) ==
  LET n == Len(t) IN
  IF i * 10 < n THEN (baseProbability \div 10) * 8
  ELSE IF i * 10 > 3 * n /\ i * 10 < 7 * n THEN (baseProbability \div 10) * 12
  ELSE IF i * 10 > 9 * n THEN (baseProbability \div 10) * 9
  ELSE baseProbability

\* overallProgress is index / text.length, so the position and the text stand for it
\* mistakes.ts 39-67 refusing to start on a space only
shouldStartMistake_SpaceOnly(t, i, s, r) ==
  LET char == At(t, i)
      p0 == IF s.adjustMistakesOverTime
            THEN adjustMistakeProbabilityOverTime(t, i, s.mistakeProbability)
            ELSE s.mistakeProbability
      prevChar == IF i > 0 THEN At(t, i - 1) ELSE " "
      nextChar == IF i < Len(t) - 1 THEN At(t, i + 1) ELSE " "
      probability == IF prevChar # " " /\ nextChar # " " THEN (p0 \div 10) * 13 ELSE p0
  IN IF char = " " THEN FALSE
     ELSE r * (ProbScale \div 1000) < probability

shouldStartMistake(t, i, s, r) ==
  LET char == At(t, i)
      p0 == IF s.adjustMistakesOverTime
            THEN adjustMistakeProbabilityOverTime(t, i, s.mistakeProbability)
            ELSE s.mistakeProbability
      prevChar == IF i > 0 THEN At(t, i - 1) ELSE " "
      nextChar == IF i < Len(t) - 1 THEN At(t, i + 1) ELSE " "
      probability == IF prevChar # " " /\ nextChar # " " THEN (p0 \div 10) * 13 ELSE p0
  IN IF char = " " \/ char = "\n" \/ char = "\t" THEN FALSE
     ELSE r * (ProbScale \div 1000) < probability

\* mistakes.ts 72-83 without the clamp of the '3 or more' branch
decideExtraLettersAfterMistake_NoClamp(s, rand, r) ==
  LET max == s.maxExtraLettersAfterMistake IN
  IF max = 0 THEN 0
  ELSE IF rand < 400 THEN 0
  ELSE IF rand < 700 THEN 1
  ELSE IF rand < 900 THEN Min(2, max)
  ELSE randomBetween(3, max, r)

decideExtraLettersAfterMistake(s, rand, r) ==
  LET max == s.maxExtraLettersAfterMistake IN
  IF max = 0 THEN 0
  ELSE IF rand < 400 THEN 0
  ELSE IF rand < 700 THEN 1
  ELSE IF rand < 900 THEN Min(2, max)
  ELSE Min(randomBetween(3, max, r), max)

\* mistakes.ts 88-112 with the neighbor lookup skipped
chooseWrongChar_Fallback(correctChar, r) ==
  LET letter == Lower[((r * 26) \div 1000) + 1]
  IN IF correctChar = toUpperCase(correctChar) THEN toUpperCase(letter) ELSE letter

\* mistakes.ts 88-112 without the random-letter fallback
chooseWrongChar_KeepNonLetter(correctChar, r) ==
  LET lowerChar == toLowerCase(correctChar)
      letter == IF lowerChar \in DOMAIN KEYBOARD_NEIGHBORS
                THEN LET neighbors == KEYBOARD_NEIGHBORS[lowerChar]
                     IN neighbors[((r * Len(neighbors)) \div 1000) + 1]
                ELSE correctChar
  IN IF correctChar = toUpperCase(correctChar) THEN toUpperCase(letter) ELSE letter

chooseWrongChar(correctChar, r) ==
  LET lowerChar == toLowerCase(correctChar)
      letter == IF lowerChar \in DOMAIN KEYBOARD_NEIGHBORS
                THEN LET neighbors == KEYBOARD_NEIGHBORS[lowerChar]
                     IN neighbors[((r * Len(neighbors)) \div 1000) + 1]
                ELSE Lower[((r * 26) \div 1000) + 1]
  IN IF correctChar = toUpperCase(correctChar) THEN toUpperCase(letter) ELSE letter

generateDeleteEvents(count, s, r) == [k \in 1..count |-> DeleteEvent(getBackspaceDelay(s, r))]

generateRetypeEvents(correctChars, s, r) ==
  [k \in 1..Len(correctChars) |->
     TypeEvent(correctChars[k], addRandomNoiseToDelay(getBaseDelayForChar(correctChars[k], s, r), s, r))]

\* events[events.length - 1].delayMs += d
AddToLast(evs, d) ==
  IF Len(evs) = 0 THEN evs
  ELSE [evs EXCEPT ![Len(evs)].delayMs = @ + d]

\* text.substring(from, to), 0-based, to exclusive
Substring(t, from, to) == [k \in 1..(to - from) |-> t[from + k]]

\* newIndex reported as the number of extra letters typed, not as a text index
createMistakeSequence_RelativeIndex(t, i, s, rWrong, rand, rn, rp, rb) ==
  LET correctChar == At(t, i)
      wrongChar == chooseWrongChar(correctChar, rWrong)
      first == <<TypeEvent(wrongChar,
                   addRandomNoiseToDelay(getBaseDelayForChar(wrongChar, s, rn), s, rn))>>
      extraLetters == decideExtraLettersAfterMistake(s, rand, rn)
      \* the loop runs while i < extraLetters && index + i + 1 < text.length
      typed == Min(extraLetters, Max(Len(t) - i - 1, 0))
      newIndex == typed
      extras == [k \in 1..typed |->
                   TypeEvent(At(t, i + k),
                     addRandomNoiseToDelay(getBaseDelayForChar(At(t, i + k), s, rn), s, rn))]
      paused == AddToLast(first \o extras, randomBetween(100, 300, rp) * Scale)
      deleteCount == extraLetters + 1
      charsToRetype == Substring(t, i, i + typed + 1)
  IN [events |-> paused \o generateDeleteEvents(deleteCount, s, rb)
                        \o generateRetypeEvents(charsToRetype, s, rn),
      newIndex |-> newIndex]

\* the extra-letter loop without its index + i + 1 < text.length test
createMistakeSequence_Unbounded(t, i, s, rWrong, rand, rn, rp, rb) ==
  LET correctChar == At(t, i)
      wrongChar == chooseWrongChar(correctChar, rWrong)
      first == <<TypeEvent(wrongChar,
                   addRandomNoiseToDelay(getBaseDelayForChar(wrongChar, s, rn), s, rn))>>
      extraLetters == decideExtraLettersAfterMistake(s, rand, rn)
      typed == extraLetters
      newIndex == i + typed
      extras == [k \in 1..typed |->
                   TypeEvent(At(t, i + k),
                     addRandomNoiseToDelay(getBaseDelayForChar(At(t, i + k), s, rn), s, rn))]
      paused == AddToLast(first \o extras, randomBetween(100, 300, rp) * Scale)
      deleteCount == extraLetters + 1
      charsToRetype == [k \in 1..(typed + 1) |-> At(t, i + k - 1)]
  IN [events |-> paused \o generateDeleteEvents(deleteCount, s, rb)
                        \o generateRetypeEvents(charsToRetype, s, rn),
      newIndex |-> newIndex]

\* mistakes.ts 156-209 retyping the original character only
createMistakeSequence_RetypeOne(t, i, s, rWrong, rand, rn, rp, rb) ==
  LET correctChar == At(t, i)
      wrongChar == chooseWrongChar(correctChar, rWrong)
      first == <<TypeEvent(wrongChar,
                   addRandomNoiseToDelay(getBaseDelayForChar(wrongChar, s, rn), s, rn))>>
      extraLetters == decideExtraLettersAfterMistake(s, rand, rn)
      typed == Min(extraLetters, Max(Len(t) - i - 1, 0))
      newIndex == i + typed
      extras == [k \in 1..typed |->
                   TypeEvent(At(t, i + k),
                     addRandomNoiseToDelay(getBaseDelayForChar(At(t, i + k), s, rn), s, rn))]
      paused == AddToLast(first \o extras, randomBetween(100, 300, rp) * Scale)
      deleteCount == extraLetters + 1
      charsToRetype == Substring(t, i, i + 1)
  IN [events |-> paused \o generateDeleteEvents(deleteCount, s, rb)
                        \o generateRetypeEvents(charsToRetype, s, rn),
      newIndex |-> newIndex]

\* mistakes.ts 156-209 adding the realization pause after the deletes
createMistakeSequence_PauseAfterDeletes(t, i, s, rWrong, rand, rn, rp, rb) ==
  LET correctChar == At(t, i)
      wrongChar == chooseWrongChar(correctChar, rWrong)
      first == <<TypeEvent(wrongChar,
                   addRandomNoiseToDelay(getBaseDelayForChar(wrongChar, s, rn), s, rn))>>
      extraLetters == decideExtraLettersAfterMistake(s, rand, rn)
      typed == Min(extraLetters, Max(Len(t) - i - 1, 0))
      newIndex == i + typed
      extras == [k \in 1..typed |->
                   TypeEvent(At(t, i + k),
                     addRandomNoiseToDelay(getBaseDelayForChar(At(t, i + k), s, rn), s, rn))]
      deleteCount == extraLetters + 1
      charsToRetype == Substring(t, i, newIndex + 1)
      paused == AddToLast(first \o extras \o generateDeleteEvents(deleteCount, s, rb),
                          randomBetween(100, 300, rp) * Scale)
  IN [events |-> paused \o generateRetypeEvents(charsToRetype, s, rn),
      newIndex |-> newIndex]

createMistakeSequence(t, i, s, rWrong, rand, rn, rp, rb) ==
  LET correctChar == At(t, i)
      wrongChar == chooseWrongChar(correctChar, rWrong)
      first == <<TypeEvent(wrongChar,
                   addRandomNoiseToDelay(getBaseDelayForChar(wrongChar, s, rn), s, rn))>>
      extraLetters == decideExtraLettersAfterMistake(s, rand, rn)
      \* the loop runs while i < extraLetters && index + i + 1 < text.length
      typed == Min(extraLetters, Max(Len(t) - i - 1, 0))
      newIndex == i + typed
      extras == [k \in 1..typed |->
                   TypeEvent(At(t, i + k),
                     addRandomNoiseToDelay(getBaseDelayForChar(At(t, i + k), s, rn), s, rn))]
      paused == AddToLast(first \o extras, randomBetween(100, 300, rp) * Scale)
      deleteCount == extraLetters + 1
      charsToRetype == Substring(t, i, newIndex + 1)
  IN [events |-> paused \o generateDeleteEvents(deleteCount, s, rb)
                        \o generateRetypeEvents(charsToRetype, s, rn),
      newIndex |-> newIndex]

\* mistakes.ts 236-284 with the realization pause on the first typed character
createTranspositionMistake_PauseFirst(t, i, s, rn, rp, rb) ==
  IF i + 1 >= Len(t) THEN Null
  ELSE
    LET char1 == At(t, i)
        char2 == At(t, i + 1)
    IN IF char1 = " " \/ char2 = " " \/ char1 = "\n" \/ char2 = "\n" THEN Null
       ELSE
         LET first == <<TypeEvent(char2, addRandomNoiseToDelay(getBaseDelayForChar(char2, s, rn), s, rn))>>
             second == <<TypeEvent(char1, addRandomNoiseToDelay(getBaseDelayForChar(char1, s, rn), s, rn))>>
             paused == AddToLast(first, randomBetween(150, 350, rp) * Scale) \o second
         IN [events |-> paused \o generateDeleteEvents(2, s, rb)
                               \o generateRetypeEvents(<<char1, char2>>, s, rn),
             newIndex |-> i + 1]

\* mistakes.ts 236-284 skipping every whitespace character, tab included
createTranspositionMistake_SkipWhitespace(t, i, s, rn, rp, rb) ==
  IF i + 1 >= Len(t) THEN Null
  ELSE
    LET char1 == At(t, i)
        char2 == At(t, i + 1)
    IN IF char1 \in Whitespace \/ char2 \in Whitespace THEN Null
       ELSE
         LET typed == <<TypeEvent(char2, addRandomNoiseToDelay(getBaseDelayForChar(char2, s, rn), s, rn)),
                        TypeEvent(char1, addRandomNoiseToDelay(getBaseDelayForChar(char1, s, rn), s, rn))>>
             paused == AddToLast(typed, randomBetween(150, 350, rp) * Scale)
         IN [events |-> paused \o generateDeleteEvents(2, s, rb)
                               \o generateRetypeEvents(<<char1, char2>>, s, rn),
             newIndex |-> i + 1]

createTranspositionMistake(t, i, s, rn, rp, rb) ==
  IF i + 1 >= Len(t) THEN Null
  ELSE
    LET char1 == At(t, i)
        char2 == At(t, i + 1)
    IN IF char1 = " " \/ char2 = " " \/ char1 = "\n" \/ char2 = "\n" THEN Null
       ELSE
         LET typed == <<TypeEvent(char2, addRandomNoiseToDelay(getBaseDelayForChar(char2, s, rn), s, rn)),
                        TypeEvent(char1, addRandomNoiseToDelay(getBaseDelayForChar(char1, s, rn), s, rn))>>
             paused == AddToLast(typed, randomBetween(150, 350, rp) * Scale)
         IN [events |-> paused \o generateDeleteEvents(2, s, rb)
                               \o generateRetypeEvents(<<char1, char2>>, s, rn),
             newIndex |-> i + 1]

-----------------------------------------------------------------------------
(* planning.ts *)

getDefaultSettings ==
  [wpm |-> 80, mistakeProbability |-> (ProbScale \div 100) * 2,
   maxExtraLettersAfterMistake |-> 2, speedRandomness |-> 1,
   usePunctuationPauses |-> TRUE, useLongWordPauses |-> TRUE, useBursts |-> TRUE,
   useMicroPauses |-> TRUE, useThinkingPauses |-> TRUE,
   adjustSpeedOverTime |-> TRUE, adjustMistakesOverTime |-> TRUE]

\* In-bounds configurations planned: the defaults; the fastest, most error-prone
\* and noisiest one; and one with no mistakes, smooth noise and every toggle off.
FastSettings ==
  [getDefaultSettings EXCEPT !.wpm = 200, !.mistakeProbability = ProbScale \div 2,
                             !.maxExtraLettersAfterMistake = 3]

PlainSettings ==
  [wpm |-> 60, mistakeProbability |-> 0,
   maxExtraLettersAfterMistake |-> 2, speedRandomness |-> 0,
   usePunctuationPauses |-> FALSE, useLongWordPauses |-> FALSE, useBursts |-> FALSE,
   useMicroPauses |-> FALSE, useThinkingPauses |-> FALSE,
   adjustSpeedOverTime |-> FALSE, adjustMistakesOverTime |-> FALSE]

Configs == {FastSettings, PlainSettings}

RECURSIVE SeqsUpTo(_, _)
SeqsUpTo(S, n) ==
  IF n = 0 THEN {<<>>}
  ELSE LET shorter == SeqsUpTo(S, n - 1)
       IN shorter \cup {Append(t, c) : t \in shorter, c \in S}

Texts == SeqsUpTo(Alphabet, MaxLen)

NoStep == [kind |-> "none", at |-> 0, newIndex |-> 0, thought |-> FALSE]

\* texts of the documented scenarios, planned with no mistakes, smooth noise and
\* every toggle off
ScenarioTexts == {<<"h", "i">>} \cup {<<c>> : c \in UpperLetters}

ScenarioConfigs == {[PlainSettings EXCEPT !.wpm = w] : w \in {10, 60, 200}}

\* texts with a tab or a newline next to a letter, planned with FastSettings
WhitespaceTexts ==
  {<<w, "a">> : w \in {"\t", "\n"}} \cup {<<"a", w>> : w \in {"\t", "\n"}}

\* the length of the text planned with bursts: room for a burst of 5 triggered
\* by the first character and for the character that follows it
BurstLen == 7

\* one run of letters, long enough for a burst to begin, end and be followed
BurstTexts == {[k \in 1..BurstLen |-> "a"]}

\* bursts as the only toggle, without and with mistakes
BurstSettings == [PlainSettings EXCEPT !.useBursts = TRUE]

BurstMistakeSettings ==
  [BurstSettings EXCEPT !.mistakeProbability = ProbScale \div 2,
                        !.maxExtraLettersAfterMistake = 0]

BurstConfigs == {BurstSettings, BurstMistakeSettings}

\* texts with a punctuation character followed by a letter, planned with the
\* punctuation pauses as the only toggle
PunctuationTexts == {<<".", "a">>, <<"a", "?", "a">>}

PunctuationSettings == [PlainSettings EXCEPT !.usePunctuationPauses = TRUE]

PlanInputs ==
  (Texts \X Configs) \cup (ScenarioTexts \X ScenarioConfigs)
    \cup (WhitespaceTexts \X {FastSettings})
    \cup (PunctuationTexts \X {PunctuationSettings})

\* the inputs of the plans in which bursts run to their end
BurstInputs == BurstTexts \X BurstConfigs

PlanStart(inputs) ==
  /\ \E input \in inputs : text = input[1] /\ settings = input[2]
  /\ index = 0
  /\ events = <<>>
  /\ burstCounter = 0
  /\ burstMultiplier = 10
  /\ pc = "loop"
  /\ totalTimeMs = 0
  /\ lastStep = NoStep
  /\ mag \in Draws

\* the while condition with <= for <
LoopCondition_Inclusive(t, i) == i <= Len(t)

\* planning.ts 28: the while condition
LoopCondition(t, i) == i < Len(t)

\* planning.ts 31-36: a triggered thinking pause is added to the last event emitted
\* planning.ts 31-36 emitting the pause as an event of its own
ThinkingStep_NewEvent(evs, t, i, s, rThink, rp) ==
  IF shouldInsertThinkingPause(t, i, s, rThink) /\ Len(evs) > 0
  THEN Append(evs, TypeEvent("", getThinkingPauseDelay(rp)))
  ELSE evs

ThinkingStep(evs, t, i, s, rThink, rp) ==
  IF shouldInsertThinkingPause(t, i, s, rThink) /\ Len(evs) > 0
  THEN AddToLast(evs, getThinkingPauseDelay(rp))
  ELSE evs

\* the transposition gate without the mistakeProbability > 0 test
TranspositionFires_NoProbabilityCheck(t, i, s, rTrans, tr) ==
  isStartOfWord(t, i) /\ rTrans < 50 /\ tr # Null

\* planning.ts 39-43 taking the branch although no sequence was returned
TranspositionFires_IgnoreNull(t, i, s, rTrans, tr) ==
  isStartOfWord(t, i) /\ rTrans < 50 /\ s.mistakeProbability > 0

\* planning.ts 39-43: the transposition branch is taken
TranspositionFires(t, i, s, rTrans, tr) ==
  isStartOfWord(t, i) /\ rTrans < 50 /\ s.mistakeProbability > 0 /\ tr # Null

createNormalTypeEvent(t, i, s, rn, rp) ==
  LET char == At(t, i)
      baseDelay == getBaseDelayForChar(char, s, rn) + getContextExtraDelay(t, i, s, rp)
      finalDelay == addRandomNoiseToDelay(baseDelay, s, rn)
  IN TypeEvent(char, Max(finalDelay, 20 * Scale))

\* planning.ts 75-77 with a burst of 3 to 6 characters
rollBurstCounter_UpToSix(counter, rolled, rLen) ==
  IF rolled < 10 THEN ((rLen * 4) \div 1000) + 3 ELSE counter

\* planning.ts 75-77: the counter after a roll made outside a burst
rollBurstCounter(counter, rolled, rLen) ==
  IF rolled < 10 THEN ((rLen * 3) \div 1000) + 3 ELSE counter

\* planning.ts 64-71 adding the settling delay before the multiplication
BurstDelay_SettleFirst(delayMs, counter, multiplier) ==
  IF counter > 0
  THEN ((delayMs + (IF counter - 1 = 0 THEN 100 * Scale ELSE 0)) \div 10) * multiplier
  ELSE delayMs

\* planning.ts 64-71 without the settling delay
BurstDelay_NoSettle(delayMs, counter, multiplier) ==
  IF counter > 0 THEN (delayMs \div 10) * multiplier ELSE delayMs

\* planning.ts 64-78: the delay after the burst handling
BurstDelay(delayMs, counter, multiplier) ==
  IF counter > 0
  THEN (delayMs \div 10) * multiplier + (IF counter - 1 = 0 THEN 100 * Scale ELSE 0)
  ELSE delayMs

\* planning.ts 81-84
SpeedDelay(delayMs, t, i, s) ==
  IF s.adjustSpeedOverTime THEN (delayMs \div 100) * adjustSpeedOverTime(i, Len(t))
  ELSE delayMs

PlanTransposition ==
  /\ pc = "loop" /\ LoopCondition(text, index)
  /\ \E rThink \in Draws, rTrans \in Draws :
       LET evs == ThinkingStep(events, text, index, settings, rThink, mag)
           tr == createTranspositionMistake(text, index, settings, mag, mag, mag)
       IN /\ TranspositionFires(text, index, settings, rTrans, tr)
          /\ events' = evs \o tr.events
          /\ index' = tr.newIndex + 1
          /\ lastStep' = [kind |-> "transposition", at |-> index, thought |-> evs # events,
                          newIndex |-> tr.newIndex]
  /\ UNCHANGED <<text, settings, burstCounter, burstMultiplier, pc, totalTimeMs, mag>>
  /\ UNCHANGED execVars

\* planning.ts 52-58 with a mistake ending the burst in progress
PlanMistake_ResetBurst ==
  /\ pc = "loop" /\ LoopCondition(text, index)
  /\ \E rThink \in Draws, rTrans \in Draws, rMist \in Draws, rWrong \in Draws,
        rand \in ExtraDraws :
       LET evs == ThinkingStep(events, text, index, settings, rThink, mag)
           tr == createTranspositionMistake(text, index, settings, mag, mag, mag)
           ms == createMistakeSequence(text, index, settings, rWrong, rand, mag, mag, mag)
       IN /\ ~TranspositionFires(text, index, settings, rTrans, tr)
          /\ shouldStartMistake(text, index, settings, rMist)
          /\ events' = evs \o ms.events
          /\ index' = ms.newIndex + 1
          /\ lastStep' = [kind |-> "mistake", at |-> index, thought |-> evs # events,
                          newIndex |-> ms.newIndex]
  /\ burstCounter' = 0
  /\ UNCHANGED <<text, settings, burstMultiplier, pc, totalTimeMs, mag>>
  /\ UNCHANGED execVars

PlanMistake ==
  /\ pc = "loop" /\ LoopCondition(text, index)
  /\ \E rThink \in Draws, rTrans \in Draws, rMist \in Draws, rWrong \in Draws,
        rand \in ExtraDraws :
       LET evs == ThinkingStep(events, text, index, settings, rThink, mag)
           tr == createTranspositionMistake(text, index, settings, mag, mag, mag)
           ms == createMistakeSequence(text, index, settings, rWrong, rand, mag, mag, mag)
       IN /\ ~TranspositionFires(text, index, settings, rTrans, tr)
          /\ shouldStartMistake(text, index, settings, rMist)
          /\ events' = evs \o ms.events
          /\ index' = ms.newIndex + 1
          /\ lastStep' = [kind |-> "mistake", at |-> index, thought |-> evs # events,
                          newIndex |-> ms.newIndex]
  /\ UNCHANGED <<text, settings, burstCounter, burstMultiplier, pc, totalTimeMs, mag>>
  /\ UNCHANGED execVars

PlanNormal ==
  /\ pc = "loop" /\ LoopCondition(text, index)
  /\ \E rThink \in Draws, rTrans \in Draws, rMist \in Draws,
        rGate \in Draws, rMul \in Draws, rLen \in LenDraws, rMicro \in Draws :
       LET evs == ThinkingStep(events, text, index, settings, rThink, mag)
           tr == createTranspositionMistake(text, index, settings, mag, mag, mag)
           event == createNormalTypeEvent(text, index, settings, mag, mag)
           d1 == BurstDelay(event.delayMs, burstCounter, burstMultiplier)
           rolled == getBurstTypingMultiplier(settings, rGate, rMul)
           d2 == SpeedDelay(d1, text, index, settings)
           d3 == IF isStartOfWord(text, index) /\ shouldInsertMicroPause(settings, rMicro)
                 THEN d2 + getMicroPauseDelay(mag) ELSE d2
       IN /\ ~TranspositionFires(text, index, settings, rTrans, tr)
          /\ ~shouldStartMistake(text, index, settings, rMist)
          /\ IF burstCounter > 0
             THEN /\ burstCounter' = burstCounter - 1
                  /\ burstMultiplier' = burstMultiplier
             ELSE /\ burstMultiplier' = rolled
                  /\ burstCounter' = rollBurstCounter(burstCounter, rolled, rLen)
          /\ events' = Append(evs, [event EXCEPT !.delayMs = d3])
          /\ index' = index + 1
          /\ lastStep' = [kind |-> "normal", at |-> index, thought |-> evs # events,
                          newIndex |-> index]
  /\ UNCHANGED <<text, settings, pc, totalTimeMs, mag>>
  /\ UNCHANGED execVars

\* planning.ts 95-100: the loop has ended; the plan is returned
PlanReturn ==
  /\ pc = "loop" /\ ~LoopCondition(text, index)
  /\ totalTimeMs' = estimateTotalTime(events)
  /\ pc' = "done"
  /\ UNCHANGED <<text, settings, index, events, burstCounter, burstMultiplier, lastStep, mag>>
  /\ UNCHANGED execVars

PlanNext == PlanTransposition \/ PlanMistake \/ PlanNormal \/ PlanReturn

-----------------------------------------------------------------------------
(* App.tsx and main.js: the batch executor and the injection layer *)

BATCH_SIZE == 50

MaxStarts == 2              \* Start presses in one behaviour
MaxTail == 1                \* events of the longest plan beyond one full batch
MaxBatch == 3               \* batch sizes tried besides the shipped one
MaxTime == 4                \* ticks of the clock in one behaviour

\* The lengths of the plans executed. The executor reads an event only to pass
\* it on, so an event is identified by its run (the Start presses that were left
\* when it began) and its 1-based place in the plan.
PlanLens == {1, BATCH_SIZE, BATCH_SIZE + MaxTail}

\* plans of a single batch, for behaviours with several runs
ShortLens == {1, 1 + MaxTail}

PlanEvents(run, n) == [k \in 1..n |-> [run |-> run, pos |-> k]]

\* no type-batch call has been answered yet
NoReply == [failed |-> FALSE, rejected |-> FALSE, success |-> FALSE]

\* the state of a mounted App before Start (App.tsx 16-32) and of main.js at load
AppMounted ==
  /\ isTyping = FALSE
  /\ isPaused = FALSE
  /\ progress = 0
  /\ eventsRef = <<>>
  /\ currentIndexRef = 0
  /\ shouldStopRef = FALSE
  /\ typingTimeoutRef = 0
  /\ timers = {}
  /\ startsPending = 0
  /\ inflight = {}
  /\ currentTypingProcess = 0
  /\ injected = EmptyBag
  /\ sent = <<>>
  /\ lastReply = NoReply
  /\ lastAction = "none"
  /\ now = 0 /\ startTimeRef = 0 /\ pauseTimeRef = 0 /\ elapsedTime = 0
  /\ activeTime = 0 /\ pausedFor = 0

\* no function has been called on its own
CallIdle == fn = "none" /\ fnArgs = <<>> /\ fnRet = <<>>

\* the shipped executor
ExecIdle == AppMounted /\ batchSize = BATCH_SIZE /\ CallIdle

\* the planner at rest, while the executor runs
PlanIdle ==
  /\ text = <<>>
  /\ settings = getDefaultSettings
  /\ index = 0
  /\ events = <<>>
  /\ burstCounter = 0
  /\ burstMultiplier = 10
  /\ pc = "done"
  /\ totalTimeMs = 0
  /\ lastStep = NoStep
  /\ mag = 0

\* the smallest id not in use
FreshId(used) == CHOOSE n \in 1..(Cardinality(used) + 1) : n \notin used

\* The isPaused that processBatch reads is the one of the render that created the
\* callback (useCallback, App.tsx 172). handleStart keeps the processBatch of the
\* render in which text or settings last changed (App.tsx 86-87), made while not paused.
StartClosureIsPaused == FALSE

\* handleResume is re-created with isPaused and processBatch of the same render
\* (App.tsx 198), and runs only if that isPaused is true (App.tsx 190).
ResumeClosureIsPaused_Fresh == FALSE

ResumeClosureIsPaused == isPaused

\* clearTimeout(typingTimeoutRef.current); typingTimeoutRef.current = null
ClearTypingTimeout ==
  /\ timers' = {t \in timers : t.id # typingTimeoutRef}
  /\ typingTimeoutRef' = 0

\* App.tsx 89-97 without setIsTyping(false)
finishTyping_StillTyping ==
  /\ isTyping' = isTyping
  /\ progress' = 100

\* App.tsx 89-97
finishTyping ==
  /\ isTyping' = FALSE
  /\ progress' = 100

\* Array.prototype.slice(a, b) for 0 <= a <= b <= length
slice_SkipFirst(arr, a, b) == SubSeq(arr, a + 2, b)

slice(arr, a, b) == SubSeq(arr, a + 1, b)

\* App.tsx 99-127: processBatch up to its await, called from a closure whose
\* isPaused is cp, when shouldStopRef.current is stop
processBatch(cp, stop) ==
  IF currentIndexRef >= Len(eventsRef)
  THEN /\ finishTyping
       /\ UNCHANGED mainVars
  ELSE IF cp \/ stop
  THEN UNCHANGED <<isTyping, progress, mainVars>>
  ELSE LET endIndex == Min(currentIndexRef + batchSize, Len(eventsRef))
           batchEvents == slice(eventsRef, currentIndexRef, endIndex)
           id == FreshId({p.id : p \in inflight})
       IN /\ inflight' = inflight \cup {[id |-> id, cp |-> cp, endIndex |-> endIndex,
                                         remaining |-> batchEvents, killed |-> FALSE,
                                         failed |-> FALSE]}
          /\ sent' = sent \o batchEvents
          /\ currentTypingProcess' = id
          /\ injected' = injected
          /\ UNCHANGED <<isTyping, progress>>

\* App.tsx 34-75: handleStart up to the 1 second wait (the Start button, or the
\* toggle hotkey while not typing); the permission check is granted
handleStart(lens) ==
  /\ ~isTyping /\ startsLeft > 0
  /\ \E n \in lens : eventsRef' = PlanEvents(startsLeft, n)
  /\ currentIndexRef' = 0
  /\ isTyping' = TRUE
  /\ isPaused' = FALSE
  /\ progress' = 0
  /\ shouldStopRef' = FALSE
  /\ startsPending' = startsPending + 1
  /\ startsLeft' = startsLeft - 1
  /\ lastAction' = "start"
  /\ UNCHANGED <<typingTimeoutRef, timers, mainVars, planVars, callVars, batchSize, lastReply>>
  /\ elapsedTime' = 0
  /\ UNCHANGED <<now, startTimeRef, pauseTimeRef, activeTime, pausedFor>>

Start == handleStart(PlanLens)

StartShort == handleStart(ShortLens)

\* App.tsx 78-81: the wait is over, handleStart calls processBatch
StartDelayElapsed ==
  /\ startsPending > 0
  /\ startsPending' = startsPending - 1
  /\ processBatch(StartClosureIsPaused, shouldStopRef)
  /\ UNCHANGED <<isPaused, eventsRef, currentIndexRef, shouldStopRef, typingTimeoutRef,
                 timers, lastAction, startsLeft, planVars, callVars, batchSize, lastReply>>
  /\ startTimeRef' = now
  /\ activeTime' = 0
  /\ UNCHANGED <<now, pauseTimeRef, elapsedTime, pausedFor>>

\* App.tsx 191: Date.now() - pauseTimeRef.current, with no time taken off
pauseDuration_Zero(t, pauseTime) == 0

\* App.tsx 191: Date.now() - pauseTimeRef.current
pauseDuration(t, pauseTime) == t - pauseTime

\* App.tsx 179-187
handlePause ==
  /\ ClearTypingTimeout
  /\ shouldStopRef' = TRUE
  /\ isPaused' = TRUE
  /\ pauseTimeRef' = now
  /\ pausedFor' = 0

\* the Pause button, or the toggle hotkey while typing and not paused
Pause ==
  /\ isTyping /\ ~isPaused
  /\ handlePause
  /\ lastAction' = "pause"
  /\ UNCHANGED <<isTyping, progress, eventsRef, currentIndexRef, startsPending,
                 mainVars, startsLeft, planVars, callVars, batchSize, lastReply>>
  /\ UNCHANGED <<now, startTimeRef, elapsedTime, activeTime>>

\* main.js 294-311: the Tab shortcut, registered while typing and not paused
\* (App.tsx 248-266): force-pause is sent and the current typing process is killed
TabPause ==
  /\ isTyping /\ ~isPaused
  /\ handlePause
  /\ inflight' = {IF p.id = currentTypingProcess THEN [p EXCEPT !.killed = TRUE] ELSE p :
                    p \in inflight}
  /\ currentTypingProcess' = 0
  /\ lastAction' = "pause"
  /\ UNCHANGED <<isTyping, progress, eventsRef, currentIndexRef, startsPending,
                 injected, sent, startsLeft, planVars, callVars, batchSize, lastReply>>
  /\ UNCHANGED <<now, startTimeRef, elapsedTime, activeTime>>

\* App.tsx 189-198 (the Resume button, or the toggle hotkey while paused)
Resume ==
  /\ isTyping /\ isPaused
  /\ shouldStopRef' = FALSE
  /\ isPaused' = FALSE
  /\ processBatch(ResumeClosureIsPaused, FALSE)
  /\ lastAction' = "resume"
  /\ UNCHANGED <<eventsRef, currentIndexRef, typingTimeoutRef, timers, startsPending,
                 startsLeft, planVars, callVars, batchSize, lastReply>>
  /\ startTimeRef' = startTimeRef + pauseDuration(now, pauseTimeRef)
  /\ UNCHANGED <<now, pauseTimeRef, elapsedTime, activeTime, pausedFor>>

\* App.tsx 201-214
Stop ==
  /\ isTyping
  /\ ClearTypingTimeout
  /\ shouldStopRef' = TRUE
  /\ isTyping' = FALSE
  /\ isPaused' = FALSE
  /\ progress' = 0
  /\ currentIndexRef' = 0
  /\ eventsRef' = <<>>
  /\ lastAction' = "stop"
  /\ UNCHANGED <<startsPending, mainVars, startsLeft, planVars, callVars, batchSize, lastReply>>
  /\ elapsedTime' = 0
  /\ UNCHANGED <<now, startTimeRef, pauseTimeRef, activeTime, pausedFor>>

\* main.js 358-379: the osascript process performs its next event
InjectEvent ==
  \E p \in inflight :
    /\ ~p.killed /\ ~p.failed /\ p.remaining # <<>>
    /\ injected' = injected (+) SetToBag({Head(p.remaining)})
    /\ inflight' = (inflight \ {p}) \cup {[p EXCEPT !.remaining = Tail(p.remaining)]}
    /\ UNCHANGED <<uiVars, currentTypingProcess, sent, lastAction, startsLeft, planVars, callVars, batchSize, lastReply>>
    /\ UNCHANGED clockVars

\* main.js 383-396: the osascript process exits with an error that is not a kill
OsascriptFails ==
  \E p \in inflight :
    /\ ~p.killed /\ ~p.failed
    /\ inflight' = (inflight \ {p}) \cup {[p EXCEPT !.failed = TRUE]}
    /\ UNCHANGED <<uiVars, currentTypingProcess, injected, sent, lastAction, startsLeft,
                   planVars, callVars, batchSize, lastReply>>
    /\ UNCHANGED clockVars

\* main.js 385-395: the execFile callback settles typeBatch's promise
execFileCallback(error, killed) ==
  IF error /\ killed THEN "resolve"
  ELSE IF error THEN "resolve"
  ELSE "resolve"

\* main.js 279-282: what ipcRenderer.invoke('type-batch') gets back
typeBatchHandler(settled) ==
  IF settled = "resolve"
  THEN [rejected |-> FALSE, success |-> TRUE]
  ELSE [rejected |-> TRUE, success |-> FALSE]

\* main.js 384-395 and App.tsx 127-171: the process has ended (done, killed or
\* failed), type-batch is answered and processBatch continues after its await
BatchResolved ==
  \E p \in inflight :
    /\ p.killed \/ p.failed \/ p.remaining = <<>>
    /\ inflight' = inflight \ {p}
    /\ currentTypingProcess' = 0
    /\ LET reply == typeBatchHandler(execFileCallback(p.killed \/ p.failed, p.killed))
       IN /\ lastReply' = [failed |-> p.failed, rejected |-> reply.rejected,
                           success |-> reply.success]
          /\ IF ~reply.rejected /\ (shouldStopRef \/ p.cp)
             THEN UNCHANGED <<currentIndexRef, progress, elapsedTime, typingTimeoutRef, timers>>
             ELSE /\ currentIndexRef' = p.endIndex
                  /\ elapsedTime' = now - startTimeRef
                  /\ progress' = (p.endIndex * 100) \div Len(eventsRef)
                  /\ IF ~p.cp /\ ~shouldStopRef
                     THEN LET id == FreshId({t.id : t \in timers})
                          IN /\ timers' = timers \cup {[id |-> id, cp |-> p.cp]}
                             /\ typingTimeoutRef' = id
                     ELSE UNCHANGED <<typingTimeoutRef, timers>>
    /\ UNCHANGED <<isTyping, isPaused, eventsRef, shouldStopRef, startsPending,
                   injected, sent, lastAction, startsLeft, planVars, callVars, batchSize>>
    /\ UNCHANGED <<now, startTimeRef, pauseTimeRef, activeTime, pausedFor>>

\* App.tsx 168-170: the timeout callback calls processBatch
TimerFires ==
  \E t \in timers :
    /\ timers' = timers \ {t}
    /\ processBatch(t.cp, shouldStopRef)
    /\ UNCHANGED <<isPaused, eventsRef, currentIndexRef, shouldStopRef, typingTimeoutRef,
                   startsPending, lastAction, startsLeft, planVars, callVars, batchSize, lastReply>>
    /\ UNCHANGED clockVars

SystemNext == StartDelayElapsed \/ InjectEvent \/ BatchResolved \/ TimerFires

\* time passes
Tick ==
  /\ now < MaxTime
  /\ now' = now + 1
  /\ activeTime' = IF isPaused THEN activeTime ELSE activeTime + 1
  /\ pausedFor' = IF isPaused THEN pausedFor + 1 ELSE pausedFor
  /\ UNCHANGED <<uiVars, mainVars, startTimeRef, pauseTimeRef, elapsedTime, batchSize,
                 lastReply, lastAction, startsLeft, planVars, callVars>>

\* one run: Start once, then Pause and Resume
RunInit == PlanIdle /\ ExecIdle /\ startsLeft = 1

ControlNext == Pause \/ TabPause \/ Resume

RunNext == Start \/ ControlNext \/ SystemNext

SpecRun == RunInit /\ [][RunNext]_vars

\* one run in which the osascript process may fail
FailNext == RunNext \/ OsascriptFails

SpecFail == RunInit /\ [][FailNext]_vars

\* one run of any batch size, left alone
BatchSizes == 1..MaxBatch \cup {BATCH_SIZE}

BatchLens == 1..(MaxBatch + MaxTail) \cup {BATCH_SIZE + MaxTail}

BatchInit ==
  PlanIdle /\ AppMounted /\ CallIdle /\ batchSize \in BatchSizes /\ startsLeft = 1

StartAny == handleStart(BatchLens)

BatchNext == StartAny \/ SystemNext

SpecBatch == BatchInit /\ [][BatchNext]_vars

\* a run left alone in which the wait, the injection process, the answer to
\* type-batch and the zero-delay timeout all take their steps
SpecBatchFair ==
  /\ SpecBatch
  /\ WF_vars(StartDelayElapsed) /\ WF_vars(InjectEvent)
  /\ WF_vars(BatchResolved) /\ WF_vars(TimerFires)

\* one run with the clock running, in batches of one event or of the shipped size
ClockInit ==
  PlanIdle /\ AppMounted /\ CallIdle /\ batchSize \in {1, BATCH_SIZE} /\ startsLeft = 1

ClockNext == StartShort \/ ControlNext \/ SystemNext \/ Tick

SpecClock == ClockInit /\ [][ClockNext]_vars

\* the system's own steps are taken when they can be; the user may stop acting
SpecRunFair ==
  /\ SpecRun
  /\ WF_vars(StartDelayElapsed) /\ WF_vars(InjectEvent)
  /\ WF_vars(BatchResolved) /\ WF_vars(TimerFires)

\* every control, and Start again after a Stop or a finished run
ExecInit == PlanIdle /\ ExecIdle /\ startsLeft = MaxStarts

ExecNext == StartShort \/ Stop \/ ControlNext \/ SystemNext

SpecExec == ExecInit /\ [][ExecNext]_vars

-----------------------------------------------------------------------------
(* planning.ts and App.tsx: settings validation, called on its own *)

SettingsFields == DOMAIN getDefaultSettings

NumericFields ==
  {"wpm", "mistakeProbability", "maxExtraLettersAfterMistake", "speedRandomness"}

ToggleFields == SettingsFields \ NumericFields

\* A Partial<TypingSettings> is a record over some of the fields; a field that is
\* undefined or null is not in its domain. Numbers are in the units of the planner.
WpmInputs == {-50, 9, 10, 80, 200, 201, 9999}

ProbabilityInputs ==
  {-ProbScale, 0, (ProbScale \div 100) * 2, ProbScale \div 2, (ProbScale \div 2) + 1,
   7 * ProbScale}

ExtraLettersInputs == {-3, 0, 2, 10, 11, 100}

RandomnessInputs == {-1, 0, 1, 2, 3}

NumericInputs ==
  [wpm : WpmInputs, mistakeProbability : ProbabilityInputs,
   maxExtraLettersAfterMistake : ExtraLettersInputs, speedRandomness : RandomnessInputs]

ToggleDomains ==
  {{}, {"useBursts"}, {"useMicroPauses", "adjustSpeedOverTime"}, ToggleFields}

PartialSettings ==
  {[f \in D \cup T |-> IF f \in D THEN v[f] ELSE b] :
     D \in SUBSET NumericFields, v \in NumericInputs, T \in ToggleDomains, b \in BOOLEAN}

\* what the settings panel sends: one field at a time
PanelChanges ==
  {[f \in {g} |-> v[g]] : g \in NumericFields, v \in NumericInputs}
    \cup {[f \in {g} |-> b] : g \in ToggleFields, b \in BOOLEAN}

\* { ...a, ...b }
Spread(a, b) ==
  [f \in DOMAIN a \cup DOMAIN b |-> IF f \in DOMAIN b THEN b[f] ELSE a[f]]

\* planning.ts 153-169, with || in place of ??
validateSettings_FalsyDefault(s) ==
  LET defaults == getDefaultSettings
      num(f) == IF f \in DOMAIN s /\ s[f] # 0 THEN s[f] ELSE defaults[f]
      tog(f) == IF f \in DOMAIN s /\ s[f] THEN s[f] ELSE defaults[f]
  IN [f \in SettingsFields |->
        CASE f = "wpm" -> Max(10, Min(num(f), 200))
          [] f = "mistakeProbability" -> Max(0, Min(num(f), ProbScale \div 2))
          [] f = "maxExtraLettersAfterMistake" -> Max(0, Min(num(f), 10))
          [] f = "speedRandomness" -> Max(0, Min(num(f), 2))
          [] OTHER -> tog(f)]

\* planning.ts 153-169, without Math.max
validateSettings_NoLowerClamp(s) ==
  LET defaults == getDefaultSettings
      get(f) == IF f \in DOMAIN s THEN s[f] ELSE defaults[f]
  IN [f \in SettingsFields |->
        CASE f = "wpm" -> Min(get(f), 200)
          [] f = "mistakeProbability" -> Min(get(f), ProbScale \div 2)
          [] f = "maxExtraLettersAfterMistake" -> Min(get(f), 10)
          [] f = "speedRandomness" -> Min(get(f), 2)
          [] OTHER -> get(f)]

\* planning.ts 153-169, with every toggle taken from the defaults
validateSettings_DefaultToggles(s) ==
  LET defaults == getDefaultSettings
      get(f) == IF f \in DOMAIN s THEN s[f] ELSE defaults[f]
  IN [f \in SettingsFields |->
        CASE f = "wpm" -> Max(10, Min(get(f), 200))
          [] f = "mistakeProbability" -> Max(0, Min(get(f), ProbScale \div 2))
          [] f = "maxExtraLettersAfterMistake" -> Max(0, Min(get(f), 10))
          [] f = "speedRandomness" -> Max(0, Min(get(f), 2))
          [] OTHER -> defaults[f]]

\* planning.ts 153-169
validateSettings(s) ==
  LET defaults == getDefaultSettings
      get(f) == IF f \in DOMAIN s THEN s[f] ELSE defaults[f]
  IN [f \in SettingsFields |->
        CASE f = "wpm" -> Max(10, Min(get(f), 200))
          [] f = "mistakeProbability" -> Max(0, Min(get(f), ProbScale \div 2))
          [] f = "maxExtraLettersAfterMistake" -> Max(0, Min(get(f), 10))
          [] f = "speedRandomness" -> Max(0, Min(get(f), 2))
          [] OTHER -> get(f)]

\* validateSettings(x)
CallValidateSettings ==
  /\ fn = "none"
  /\ \E x \in PartialSettings :
       /\ fnArgs' = <<x>>
       /\ fnRet' = validateSettings(x)
  /\ fn' = "validateSettings"
  /\ UNCHANGED <<planVars, appVars>>

\* validateSettings(validateSettings(x)), as handleStart does with the settings
\* that handleSettingsChange validated (App.tsx 64)
CallValidateSettingsAgain ==
  /\ fn = "validateSettings"
  /\ fnRet' = validateSettings(fnRet)
  /\ fn' = "validateSettings twice"
  /\ UNCHANGED <<fnArgs, planVars, appVars>>

\* App.tsx 216-218: setSettings(prev => validateSettings({ ...prev, ...newSettings }))
handleSettingsChange ==
  /\ fn = "validateSettings"
  /\ \E newSettings \in PanelChanges :
       /\ fnArgs' = <<fnRet, newSettings>>
       /\ fnRet' = validateSettings(Spread(fnRet, newSettings))
  /\ fn' = "handleSettingsChange"
  /\ UNCHANGED <<planVars, appVars>>

\* Math.random(), in thousandths
RandomDraws == 0..999

\* characters with no entry in the adjacency table besides those of Alphabet
OtherChars == {"1", ".", "\n", "\t"}

\* mistakes.ts 88-112 called on one character
CallChooseWrongChar ==
  /\ fn = "none"
  /\ \E c \in LowerLetters \cup UpperLetters \cup Alphabet \cup OtherChars,
        r \in RandomDraws :
       /\ fnArgs' = <<c, r>>
       /\ fnRet' = chooseWrongChar(c, r)
  /\ fn' = "chooseWrongChar"
  /\ UNCHANGED <<planVars, appVars>>

\* characters of the texts createTranspositionMistake is called on
PairChars == {"a", "B", " ", "\n", "\t"}

\* the longest text createTranspositionMistake is called on
MaxPair == 2

PairTexts == SeqsUpTo(PairChars, MaxPair)

\* mistakes.ts 236-284 called on one position of a text
CallCreateTranspositionMistake ==
  /\ fn = "none"
  /\ \E t \in PairTexts, r \in Draws :
       \E i \in 0..Len(t) :
         /\ fnArgs' = <<t, i>>
         /\ fnRet' = createTranspositionMistake(t, i, getDefaultSettings, r, r, r)
  /\ fn' = "createTranspositionMistake"
  /\ UNCHANGED <<planVars, appVars>>

\* the four settings of the punctuation-pause and long-word-pause toggles
PauseToggleConfigs ==
  {[PlainSettings EXCEPT !.usePunctuationPauses = p, !.useLongWordPauses = w] :
     p \in BOOLEAN, w \in BOOLEAN}

\* timing.ts 78-121 called on one position of a text
CallGetContextExtraDelay ==
  /\ fn = "none"
  /\ \E t \in PairTexts \ {<<>>}, s \in PauseToggleConfigs, r \in Draws :
       \E i \in 0..(Len(t) - 1) :
         /\ fnArgs' = <<t, i, s>>
         /\ fnRet' = getContextExtraDelay(t, i, s, r)
  /\ fn' = "getContextExtraDelay"
  /\ UNCHANGED <<planVars, appVars>>

\* planning.ts 159: the values maxExtraLettersAfterMistake is clamped to
ExtraLettersRange == 0..10

\* Math.random() results on both sides of each threshold of the weighted choice
BranchDraws == {0, 399, 400, 699, 700, 899, 900, 999}

\* mistakes.ts 72-83 called with each maximum the validated settings can hold
CallDecideExtraLetters ==
  /\ fn = "none"
  /\ \E max \in ExtraLettersRange, rand \in BranchDraws, r \in RandomDraws :
       /\ fnArgs' = <<max, rand, r>>
       /\ fnRet' = decideExtraLettersAfterMistake(
                     [getDefaultSettings EXCEPT !.maxExtraLettersAfterMistake = max],
                     rand, r)
  /\ fn' = "decideExtraLettersAfterMistake"
  /\ UNCHANGED <<planVars, appVars>>

CallsInit == PlanIdle /\ ExecIdle /\ startsLeft = 0

CallsNext ==
  CallValidateSettings \/ CallValidateSettingsAgain \/ handleSettingsChange
    \/ CallChooseWrongChar \/ CallCreateTranspositionMistake
    \/ CallGetContextExtraDelay \/ CallDecideExtraLetters

SpecCalls == CallsInit /\ [][CallsNext]_vars

-----------------------------------------------------------------------------
(* The planner alone: planTyping on every text and configuration, the executor idle *)

PlanInit == PlanStart(PlanInputs)

Init == PlanInit /\ ExecIdle /\ startsLeft = 0

Next == PlanNext

Spec == Init /\ [][Next]_vars

\* planTyping called on the burst inputs
BurstInit == PlanStart(BurstInputs) /\ ExecIdle /\ startsLeft = 0

SpecBurst == BurstInit /\ [][Next]_vars

-----------------------------------------------------------------------------
(* Properties of the plan *)

\* Replaying events against an empty buffer: Type appends, Delete removes the last character
RECURSIVE Replay(_, _)
Replay(evs, buffer) ==
  IF evs = <<>> THEN buffer
  ELSE Replay(Tail(evs),
              IF evs[1].type = "type" THEN Append(buffer, evs[1].char)
              ELSE IF buffer = <<>> THEN buffer
              ELSE SubSeq(buffer, 1, Len(buffer) - 1))

Deletes(evs) == {k \in 1..Len(evs) : evs[k].type = "delete"}

SumDelays(evs) ==
  LET partial[k \in 0..Len(evs)] == IF k = 0 THEN 0 ELSE partial[k - 1] + evs[k].delayMs
  IN partial[Len(evs)]

\* C1: replaying the returned plan's events in order against an empty buffer
\* leaves the buffer equal to the text
C1_ReplayYieldsText == pc = "done" => Replay(events, <<>>) = text

\* C2: every Type event's delay is at least 20 ms, every Delete event's delay is
\* at least 40 ms, and no delay is negative
C2_DelayFloors ==
  \A k \in 1..Len(events) :
    /\ events[k].delayMs >= 0
    /\ events[k].type = "type" => events[k].delayMs >= 20 * Scale
    /\ events[k].type = "delete" => events[k].delayMs >= 40 * Scale

NoMistakeConfig(s) ==
  s.mistakeProbability = 0 /\ ~s.adjustSpeedOverTime /\ ~s.adjustMistakesOverTime

\* C5: with mistakeProbability 0 and both time-based toggles off, the plan
\* holds no Delete event
C5_NoDeletes == NoMistakeConfig(settings) => Deletes(events) = {}

\* a plan of a two-word text was completed under such a configuration
C5_Witness ==
  /\ pc = "done" /\ NoMistakeConfig(settings)
  /\ Len(text) = MaxLen /\ text[1] = "a" /\ text[2] = "a" /\ Len(events) = MaxLen

\* C6: the returned totalTimeMs is the sum of the delays of the returned events
C6_TotalIsSum == pc = "done" => totalTimeMs = SumDelays(events)

\* a returned plan with a mistake sequence in it, whose last iteration folded a
\* thinking pause onto the event before it
C6_Witness ==
  /\ pc = "done" /\ lastStep.thought /\ Deletes(events) # {} /\ totalTimeMs > 0

\* C7: for the empty text the planner returns without failing, with zero events
\* and totalTimeMs = 0
C7_EmptyText ==
  text = <<>> =>
    /\ events = <<>>
    /\ totalTimeMs = 0
    /\ pc = "loop" => ENABLED PlanReturn

C7_Witness == text = <<>> /\ pc = "done" /\ settings = FastSettings

\* C8: the planner never gets stuck inside the loop, and every iteration strictly
\* increases the position without passing text.length
C8_Terminates ==
  /\ [](pc = "loop" => ENABLED PlanNext)
  /\ [][pc = "loop" /\ pc' = "loop" => index < index' /\ index' <= Len(text)]_vars

\* the loop ended after an iteration that consumed more than one character
C8_Witness == pc = "done" /\ Len(text) = MaxLen /\ lastStep.newIndex > lastStep.at

\* C9: a sequence created at position i reports i <= newIndex <= text.length - 1;
\* the position resumes right after newIndex and never exceeds text.length
C9_ResumeIndices ==
  /\ [](/\ index <= Len(text)
        /\ lastStep.kind # "none" =>
              /\ lastStep.at <= lastStep.newIndex
              /\ lastStep.newIndex <= Len(text) - 1
              /\ index = lastStep.newIndex + 1)
  /\ [][pc = "loop" /\ pc' = "loop" =>
          /\ index' >= index
          /\ lastStep'.at = IF lastStep.kind = "none" THEN 0 ELSE lastStep.newIndex + 1]_vars

\* a mistake sequence that typed extra letters was spliced in after an earlier iteration
C9_Witness ==
  /\ lastStep.kind = "mistake" /\ lastStep.at > 0 /\ lastStep.newIndex > lastStep.at

-----------------------------------------------------------------------------
(* Properties of the executor *)

IsPrefix(s, t) == Len(s) <= Len(t) /\ SubSeq(t, 1, Len(s)) = s

\* C3: in one run, under any Pause and Resume, the type-batch payloads concatenated
\* in send order are a prefix of the plan (in order, nothing skipped, nothing sent
\* twice), and neither Pause nor any step taken while paused moves the offset
C3_SentIsPrefix ==
  /\ [](IsPrefix(sent, eventsRef))
  /\ [][isPaused' => currentIndexRef' = currentIndexRef]_vars

\* a plan of more than one batch was sent completely in a run that was paused and
\* resumed while its first batch was in flight
C3_Witness ==
  /\ lastAction = "resume" /\ ~isTyping /\ progress = 100
  /\ Len(eventsRef) > BATCH_SIZE /\ sent = eventsRef

\* C4: after a Resume that no Pause follows, the run eventually completes:
\* currentIndex reaches events.length and isTyping becomes false
C4_ResumeCompletes ==
  (isTyping /\ lastAction = "resume")
    ~> (lastAction # "resume" \/ (~isTyping /\ currentIndexRef = Len(eventsRef)))

\* C10: after Stop, and until the next control is used, the injection layer
\* performs no further event
C10_NoInjectionAfterStop ==
  [][lastAction = "stop" /\ lastAction' = "stop" => injected' = injected]_vars

\* C11: whenever no batch is in flight, currentIndex equals the number of plan
\* events the injection layer has performed
C11_IndexIsPerformed ==
  inflight = {} => currentIndexRef = BagCardinality(injected)

\* C12: in a run without Pause or Stop, for every batch size, the batches sent
\* are at every moment a prefix of the plan and, once the run has finished, their
\* concatenation is the plan's event list
C12_BatchesEqualPlan ==
  /\ IsPrefix(sent, eventsRef)
  /\ (lastAction = "start" /\ ~isTyping) => sent = eventsRef

\* a finished run whose plan was sent in several batches, the last one shorter
C12_Witness ==
  /\ lastAction = "start" /\ ~isTyping /\ progress = 100
  /\ batchSize > 1 /\ batchSize < Len(eventsRef) /\ Len(eventsRef) % batchSize # 0
  /\ sent = eventsRef

\* C13: a type-batch call whose osascript process exited with an error is not
\* answered with success
C13_FailureReported ==
  lastReply.failed => (lastReply.rejected \/ ~lastReply.success)

-----------------------------------------------------------------------------
(* Properties of settings validation and of single functions *)

\* C14: validateSettings(validateSettings(x)) equals validateSettings(x) field by
\* field, for every partial settings record x
C14_ValidateIdempotent ==
  [][fn = "validateSettings" /\ fn' = "validateSettings twice" =>
       /\ DOMAIN fnRet' = DOMAIN fnRet
       /\ \A f \in SettingsFields : fnRet'[f] = fnRet[f]]_vars

\* validated twice, from an input that was out of range and left fields out
C14_Witness ==
  /\ fn = "validateSettings twice"
  /\ DOMAIN fnArgs[1] = {"wpm", "mistakeProbability"}
  /\ fnArgs[1].wpm = 9999 /\ fnArgs[1].mistakeProbability < 0
  /\ fnRet.wpm = 200 /\ fnRet.mistakeProbability = 0

\* C15: for any numeric input validateSettings returns wpm in [10,200],
\* mistakeProbability in [0,0.5], maxExtraLettersAfterMistake in [0,10] and
\* speedRandomness in {0,1,2}; wpm -50 gives 10 and wpm 9999 gives 200
C15_ValidateClamps ==
  fn \in {"validateSettings", "handleSettingsChange"} =>
    /\ fnRet.wpm >= 10 /\ fnRet.wpm <= 200
    /\ fnRet.mistakeProbability >= 0 /\ 2 * fnRet.mistakeProbability <= ProbScale
    /\ fnRet.maxExtraLettersAfterMistake >= 0 /\ fnRet.maxExtraLettersAfterMistake <= 10
    /\ fnRet.speedRandomness \in {0, 1, 2}
    /\ LET x == IF fn = "validateSettings" THEN fnArgs[1] ELSE fnArgs[2]
       IN "wpm" \in DOMAIN x =>
            /\ x.wpm = -50 => fnRet.wpm = 10
            /\ x.wpm = 9999 => fnRet.wpm = 200

\* the panel sent a speed far below the range and it was clamped
C15_Witness ==
  /\ fn = "handleSettingsChange" /\ DOMAIN fnArgs[2] = {"wpm"}
  /\ fnArgs[2].wpm = -50 /\ fnArgs[1].wpm = 200 /\ fnRet.wpm = 10

\* C16: validateSettings fills every absent field with the documented default (wpm
\* 80, mistakeProbability 0.02, maxExtraLettersAfterMistake 2, randomness tier 1,
\* every toggle true), returns every supplied in-range value unchanged, and
\* validateSettings({}) equals getDefaultSettings()
C16_ValidateDefaults ==
  fn = "validateSettings" =>
    LET x == fnArgs[1]
        documented(f) ==
          CASE f = "wpm" -> 80
            [] f = "mistakeProbability" -> (2 * ProbScale) \div 100
            [] f = "maxExtraLettersAfterMistake" -> 2
            [] f = "speedRandomness" -> 1
            [] OTHER -> TRUE
        inRange(f, v) ==
          CASE f = "wpm" -> v >= 10 /\ v <= 200
            [] f = "mistakeProbability" -> v >= 0 /\ 2 * v <= ProbScale
            [] f = "maxExtraLettersAfterMistake" -> v >= 0 /\ v <= 10
            [] f = "speedRandomness" -> v >= 0 /\ v <= 2
            [] OTHER -> TRUE
    IN /\ \A f \in SettingsFields \ DOMAIN x : fnRet[f] = documented(f)
       /\ \A f \in DOMAIN x : inRange(f, x[f]) => fnRet[f] = x[f]
       /\ DOMAIN x = {} => fnRet = getDefaultSettings

\* some fields were supplied in range (a toggle switched off among them), the rest left out
C16_Witness ==
  /\ fn = "validateSettings"
  /\ DOMAIN fnArgs[1] = {"wpm", "useBursts"}
  /\ fnArgs[1].wpm = 10 /\ ~fnArgs[1].useBursts
  /\ fnRet.wpm = 10 /\ ~fnRet.useBursts /\ fnRet.useMicroPauses

\* C19: for every ASCII letter c and every draw, chooseWrongChar(c) is a member of
\* the adjacency-table entry of lowercase(c), upper-cased exactly when c is
\* upper-case; chooseWrongChar('a') is one of q, w, s, z
C19_WrongCharIsNeighbor ==
  (fn = "chooseWrongChar" /\ fnArgs[1] \in LowerLetters \cup UpperLetters) =>
    LET c == fnArgs[1]
        entry == KEYBOARD_NEIGHBORS[toLowerCase(c)]
        neighbors == {entry[k] : k \in 1..Len(entry)}
    IN /\ c \in LowerLetters => fnRet \in neighbors
       /\ c \in UpperLetters => fnRet \in {toUpperCase(n) : n \in neighbors}
       /\ c \in UpperLetters <=> fnRet \in UpperLetters
       /\ c = "a" => fnRet \in {"q", "w", "s", "z"}

\* the last neighbor of an upper-case letter was chosen
C19_Witness ==
  fn = "chooseWrongChar" /\ fnArgs[1] = "A" /\ fnArgs[2] = 999 /\ fnRet = "Z"

-----------------------------------------------------------------------------
(* Properties of the documented scenarios *)

\* the plan of "hi" is two Type events, 'h' then 'i', each with a delay between
\* lo and hi milliseconds, and totalTimeMs is their sum
HiPlan(lo, hi) ==
  /\ Len(events) = 2
  /\ events[1].type = "type" /\ events[1].char = "h"
  /\ events[2].type = "type" /\ events[2].char = "i"
  /\ \A k \in 1..2 : events[k].delayMs >= lo * Scale /\ events[k].delayMs <= hi * Scale
  /\ totalTimeMs = events[1].delayMs + events[2].delayMs

HiScenario == pc = "done" /\ text = <<"h", "i">> /\ settings = PlainSettings

\* C17 as stated: for "hi" at 60 wpm with no mistakes, smooth noise and every toggle
\* off, the plan is Type 'h', Type 'i', each delay in [990,1010] ms, and
\* totalTimeMs is their sum
C17_HiAround1000 == HiScenario => HiPlan(990, 1010)

\* C17 as amended: the same plan with each delay in [190,210] ms, the base delay
\* for 60 wpm being 60000 / (60 * 5) = 200 ms per character
C17_HiAround200 == HiScenario => HiPlan(190, 210)

\* "hi" was planned with the largest noise on both characters
C17_Witness == HiScenario /\ Len(events) = 2 /\ totalTimeMs = 420 * Scale

\* C18: for a text of one upper-case letter, with no mistakes, smooth noise and
\* every toggle off, the single Type event's delay is base + s + n with s in
\* [20,50] and n in [-10,10], so it lies in [base + 10, base + 60]
C18_UpperCaseSurcharge ==
  (pc = "done" /\ Len(text) = 1 /\ text[1] \in UpperLetters /\ NoMistakeConfig(settings)) =>
    LET base == wpmToBaseDelayMs(settings.wpm) IN
    /\ Len(events) = 1 /\ events[1].type = "type" /\ events[1].char = text[1]
    /\ events[1].delayMs >= base + 10 * Scale
    /\ events[1].delayMs <= base + 60 * Scale
    /\ \E sur \in 20..50, n \in -10..10 : events[1].delayMs = base + (sur + n) * Scale

\* an upper-case letter was planned with the largest surcharge and noise
C18_Witness ==
  /\ pc = "done" /\ text = <<"Z">> /\ settings = PlainSettings
  /\ events[1].delayMs = wpmToBaseDelayMs(60) + 60 * Scale

-----------------------------------------------------------------------------
(* Properties of the elapsed time *)

\* C20: in one run, under any Pause and Resume, the elapsed time reported when a
\* batch is accounted for is the time since typing began less all the time spent
\* paused, and each Resume moves startTime forward by exactly the time since the
\* Pause that suspended the run
C20_ElapsedExcludesPauses ==
  /\ [][currentIndexRef' > currentIndexRef => elapsedTime' = activeTime']_vars
  /\ [][(isPaused /\ lastAction' = "resume") =>
          startTimeRef' = startTimeRef + pausedFor]_vars

\* an elapsed time was reported after a pause during which time passed
C20_Witness ==
  /\ lastAction = "resume" /\ currentIndexRef > 0
  /\ pausedFor > 0 /\ elapsedTime > 0
  /\ elapsedTime = activeTime /\ elapsedTime < now

-----------------------------------------------------------------------------
(* Properties of the sequences the planner splices in *)

\* the events the iteration being made appends to the plan
Appended == SubSeq(events', Len(events) + 1, Len(events'))

\* the iteration being made is of the given kind
StepOf(kind) == pc = "loop" /\ index' > index /\ lastStep'.kind = kind

\* the number of events of a sequence before its first Delete
TypedBeforeDelete(seq) ==
  IF Deletes(seq) = {} THEN Len(seq)
  ELSE (CHOOSE k \in Deletes(seq) : \A j \in Deletes(seq) : k <= j) - 1

\* C21: in every standard mistake sequence the number of Delete events equals the
\* number of Type events that precede them, wherever in the text the mistake starts
C21_DeletesMatchTyped ==
  [][StepOf("mistake") =>
       Cardinality(Deletes(Appended)) = TypedBeforeDelete(Appended)]_vars

\* C22: a standard mistake sequence started at index i in which k extra characters
\* are typed is Type(wrong), Type(text[i+1]) .. Type(text[i+k]), the Delete events,
\* Type(text[i]) .. Type(text[i+k]); newIndex = i+k and the planner resumes at i+k+1
C22_MistakeShape ==
  [][StepOf("mistake") =>
       LET seq == Appended
           i == index
           k == TypedBeforeDelete(seq) - 1
           d == Cardinality(Deletes(seq))
       IN /\ k >= 0 /\ d >= 1
          /\ Len(seq) = (k + 1) + d + (k + 1)
          /\ seq[1].type = "type" /\ seq[1].char # At(text, i)
          /\ \A j \in 1..k : seq[1 + j].type = "type" /\ seq[1 + j].char = At(text, i + j)
          /\ Deletes(seq) = (k + 2)..(k + 1 + d)
          /\ \A j \in 0..k :
               /\ seq[k + 1 + d + 1 + j].type = "type"
               /\ seq[k + 1 + d + 1 + j].char = At(text, i + j)
          /\ lastStep'.newIndex = i + k
          /\ index' = i + k + 1]_vars

\* a mistake sequence in which two extra characters were typed
C22_Witness ==
  /\ lastStep.kind = "mistake" /\ lastStep.newIndex = lastStep.at + 2
  /\ Len(events) >= 9

\* the delay of a Type event for character c before any pause is added to it
PlainDelay(c) ==
  addRandomNoiseToDelay(getBaseDelayForChar(c, settings, mag), settings, mag)

\* C23: a transposition at index i emits exactly six events, Type(text[i+1]),
\* Type(text[i]), Delete, Delete, Type(text[i]), Type(text[i+1]); the 150-350 ms
\* realization pause is added to the second Type event only, newIndex = i+1 and
\* the planner resumes at i+2
C23_TranspositionShape ==
  [][StepOf("transposition") =>
       LET seq == Appended
           i == index
           c1 == At(text, i)
           c2 == At(text, i + 1)
       IN /\ Len(seq) = 6
          /\ [j \in 1..6 |-> seq[j].type] =
               <<"type", "type", "delete", "delete", "type", "type">>
          /\ <<seq[1].char, seq[2].char, seq[5].char, seq[6].char>> = <<c2, c1, c1, c2>>
          /\ seq[1].delayMs = PlainDelay(c2)
          /\ seq[2].delayMs - PlainDelay(c1) \in (150 * Scale)..(350 * Scale)
          /\ \A j \in 3..4 : seq[j].delayMs = getBackspaceDelay(settings, mag)
          /\ seq[5].delayMs = PlainDelay(c1)
          /\ seq[6].delayMs = PlainDelay(c2)
          /\ lastStep'.newIndex = i + 1
          /\ index' = i + 2]_vars

\* a transposition of two different characters has been planned after a space
C23_Witness ==
  /\ lastStep.kind = "transposition" /\ lastStep.at = 1
  /\ Len(events) = 7
  /\ events[2].char # events[3].char

\* C24: createTranspositionMistake returns no sequence exactly when there is no
\* next character (index+1 >= text.length) or when text[index] or text[index+1]
\* is a space or a newline; for every other pair, a pair containing a tab
\* included, it returns a sequence
C24_TranspositionNullExactly ==
  fn = "createTranspositionMistake" =>
    LET t == fnArgs[1]
        i == fnArgs[2]
        noNext == i + 1 >= Len(t)
        skipped == {" ", "\n"}
    IN /\ fnRet = Null <=>
            (noNext \/ At(t, i) \in skipped \/ At(t, i + 1) \in skipped)
       /\ fnRet # Null => Len(fnRet.events) = 6 /\ fnRet.newIndex = i + 1

\* a sequence was returned for a pair that starts with a tab
C24_Witness ==
  /\ fn = "createTranspositionMistake"
  /\ fnArgs = <<(<<"\t", "a">>), 0>>
  /\ fnRet # Null /\ fnRet.events[2].char = "\t"

\* C25: at each position the planner produces exactly one of a transposition
\* sequence, a standard mistake sequence or one normal Type event; a transposition
\* is produced only at a word start with mistakeProbability > 0 and only when a
\* sequence is returned; wherever the mistake check can succeed a standard mistake
\* can still be produced, also at a word start where the transposition returns
\* nothing; a normal event is produced only when the mistake check failed
C25_OneOutcomePerPosition ==
  /\ [][(pc = "loop" /\ pc' = "loop") =>
          LET seq == Appended
              tr == createTranspositionMistake(text, index, settings, mag, mag, mag)
              kind == lastStep'.kind
          IN /\ index' > index
             /\ lastStep'.at = index
             /\ kind \in {"transposition", "mistake", "normal"}
             /\ kind = "transposition" =>
                  /\ isStartOfWord(text, index)
                  /\ settings.mistakeProbability > 0
                  /\ tr # Null /\ seq = tr.events
             /\ kind = "mistake" =>
                  /\ \E r \in Draws : shouldStartMistake(text, index, settings, r)
                  /\ Deletes(seq) # {}
                  /\ seq[1].char # At(text, index)
             /\ kind = "normal" =>
                  /\ \E r \in Draws : ~shouldStartMistake(text, index, settings, r)
                  /\ Len(seq) = 1
                  /\ seq[1].type = "type" /\ seq[1].char = At(text, index)
                  /\ index' = index + 1]_vars
  /\ []((/\ pc = "loop" /\ LoopCondition(text, index)
         /\ \E r \in Draws : shouldStartMistake(text, index, settings, r))
          => ENABLED PlanMistake)

\* a standard mistake was made at a word start where no transposition applies
C25_Witness ==
  /\ lastStep.kind = "mistake" /\ isStartOfWord(text, lastStep.at)
  /\ Len(text) >= 2 /\ At(text, lastStep.at + 1) = " "
  /\ createTranspositionMistake(text, lastStep.at, settings, mag, mag, mag) = Null

\* C26: a standard mistake sequence is never started at a position whose source
\* character is a space, a tab or a newline, whatever the configuration and the
\* draws; the wrong-character event stands for a non-whitespace source character
C26_NoMistakeOnWhitespace ==
  [][StepOf("mistake") =>
       /\ At(text, index) \notin Whitespace
       /\ Appended[1].type = "type"
       /\ Appended[1].char \notin Whitespace]_vars

\* a mistake was made on the letter that follows a tab, the tab itself having
\* been typed as a normal event
C26_Witness ==
  /\ text = <<"\t", "a">>
  /\ lastStep.kind = "mistake" /\ lastStep.at = 1
  /\ events[1] = [type |-> "type", char |-> "\t", delayMs |-> events[1].delayMs]

-----------------------------------------------------------------------------
(* Properties of burst runs *)

\* the delay of the normal event for the current position before burst handling
NormalDelay == createNormalTypeEvent(text, index, settings, mag, mag).delayMs

\* nothing is applied to a normal event's delay after the burst handling
NoLaterAdjustment == ~settings.adjustSpeedOverTime /\ ~settings.useMicroPauses

SettleMs == 100 * Scale

\* C27: the event at which a burst is triggered is not discounted; the counter
\* is then 3, 4 or 5 and the multiplier is below 1; each following normal event
\* has its delay multiplied by that multiplier and lowers the counter by one,
\* with no new roll while the counter is positive; mistake and transposition
\* sequences leave both alone; the counter is within 0..5 in every state
C27_BurstRuns ==
  /\ [](burstCounter \in 0..5)
  /\ [][/\ StepOf("normal") =>
             LET new == Appended[1].delayMs
                 discounted == (NormalDelay \div 10) * burstMultiplier
             IN IF burstCounter > 0
                THEN /\ burstCounter' = burstCounter - 1
                     /\ burstMultiplier' = burstMultiplier
                     /\ NoLaterAdjustment => new \in {discounted, discounted + SettleMs}
                ELSE /\ burstCounter' \in {0, 3, 4, 5}
                     /\ burstCounter' > 0 => burstMultiplier' < 10
                     /\ NoLaterAdjustment => new = NormalDelay
        /\ (StepOf("mistake") \/ StepOf("transposition")) =>
             UNCHANGED <<burstCounter, burstMultiplier>>]_vars

\* a mistake was made inside a burst of five, after its first discounted event
C27_Witness ==
  /\ settings = BurstMistakeSettings
  /\ lastStep.kind = "mistake" /\ lastStep.at = 2
  /\ burstCounter = 4 /\ burstMultiplier = 3
  /\ events[2].delayMs < events[1].delayMs

\* C28: getBurstTypingMultiplier returns 1.0 when bursts are disabled or the 15%
\* gate does not fire and otherwise a value in [0.3, 0.5], so the planner's burst
\* multiplier (in tenths) is always 10 or within 3..5
C28_MultiplierInRange ==
  burstMultiplier \in {10} \cup 3..5

\* In a plan made with BurstSettings every event is a normal Type event of the
\* same letter: its delay is the plain one, the discounted one (the only
\* multiplier that starts a burst is 0.3), or the discounted one plus the settle
PlainMs == createNormalTypeEvent(text, 0, settings, mag, mag).delayMs

DiscountedMs == (PlainMs \div 10) * 3

IsDiscounted(j) == events[j].delayMs \in {DiscountedMs, DiscountedMs + SettleMs}

IsSettled(j) == events[j].delayMs \notin {PlainMs, DiscountedMs}

\* the number of events just before event j that are discounted and not settled
RECURSIVE RunBefore(_)
RunBefore(j) ==
  IF j > 1 /\ events[j - 1].delayMs = DiscountedMs THEN 1 + RunBefore(j - 1) ELSE 0

\* C29: the +100 ms settling delay is added exactly once per burst, to the event
\* that brings the counter to zero and after that event's delay was multiplied,
\* and to no other event of the plan
C29_SettleOncePerBurst ==
  /\ [][/\ (StepOf("normal") /\ NoLaterAdjustment) =>
             LET multiplied == IF burstCounter > 0
                               THEN (NormalDelay \div 10) * burstMultiplier
                               ELSE NormalDelay
             IN Appended[1].delayMs - multiplied =
                  IF burstCounter > 0 /\ burstCounter' = 0 THEN SettleMs ELSE 0
        /\ StepOf("mistake") =>
             \E rWrong \in Draws, rand \in ExtraDraws :
               Appended = createMistakeSequence(text, index, settings, rWrong, rand,
                                                mag, mag, mag).events
        /\ StepOf("transposition") =>
             Appended = createTranspositionMistake(text, index, settings,
                                                   mag, mag, mag).events
        /\ ~settings.useThinkingPauses => SubSeq(events', 1, Len(events)) = events]_vars
  /\ [](settings = BurstSettings =>
          \A j \in 1..Len(events) :
            /\ IsSettled(j) =>
                 /\ events[j].delayMs = DiscountedMs + SettleMs
                 /\ RunBefore(j) \in 2..4
                 /\ events[j - RunBefore(j) - 1].delayMs = PlainMs
                 /\ j < Len(events) => events[j + 1].delayMs = PlainMs
            /\ (events[j].delayMs = DiscountedMs /\ j < Len(events)) =>
                 IsDiscounted(j + 1))

\* a burst of three has ended with one settled event and a second burst has begun
C29_Witness ==
  /\ settings = BurstSettings /\ pc = "done"
  /\ events[4].delayMs = DiscountedMs + SettleMs
  /\ events[5].delayMs = PlainMs
  /\ events[6].delayMs = DiscountedMs
  /\ Cardinality({j \in 1..Len(events) : IsSettled(j)}) = 1

\* C30 as stated: the settling delay is received by the first normal event after
\* the last burst-discounted event, and by no discounted event
C30_SettleOnFollowingEvent ==
  settings = BurstSettings =>
    \A j \in 1..(Len(events) - 1) :
      (IsDiscounted(j) /\ ~IsDiscounted(j + 1)) =>
        /\ events[j].delayMs = DiscountedMs
        /\ events[j + 1].delayMs = PlainMs + SettleMs

\* C30 amended: the settling delay is carried by the last burst-discounted event,
\* whose delay is waited after its keystroke, and the first normal event after
\* the burst has the plain delay
C30_SettleOnLastDiscounted ==
  settings = BurstSettings =>
    \A j \in 1..(Len(events) - 1) :
      (IsDiscounted(j) /\ ~IsDiscounted(j + 1)) =>
        /\ events[j].delayMs = DiscountedMs + SettleMs
        /\ events[j + 1].delayMs = PlainMs

\* a burst of five has ended and the character after it has been planned
C30_Witness ==
  /\ settings = BurstSettings
  /\ Len(events) >= 7
  /\ \A j \in 2..5 : events[j].delayMs = DiscountedMs
  /\ events[6].delayMs = DiscountedMs + SettleMs
  /\ events[7].delayMs = PlainMs

-----------------------------------------------------------------------------
(* Properties of the context delays and pauses *)

\* C31: getContextExtraDelay adds its paragraph-break component (500-1000 ms)
\* whenever the current and the previous character are both newlines, whatever
\* the punctuation-pause and long-word-pause toggles are, both off included
C31_ParagraphBreakAlways ==
  (/\ fn = "getContextExtraDelay"
   /\ fnArgs[2] > 0
   /\ At(fnArgs[1], fnArgs[2]) = "\n"
   /\ At(fnArgs[1], fnArgs[2] - 1) = "\n")
    => fnRet \in (500 * Scale)..(1000 * Scale)

\* main.js 357-379: each event's key is pressed and then its delayMs is slept,
\* so the k-th keystroke of a replayed plan happens after the delays before it
KeystrokeTime(evs, k) == SumDelays(SubSeq(evs, 1, k - 1))

PunctuationMarks == {".", ",", ";", ":", "!", "?"}

\* C32: when the plan is replayed, the 200-500 ms punctuation pause elapses after
\* the keystroke of the punctuation character and before the keystroke of the
\* character that follows it
C32_PauseAfterPunctuation ==
  (settings = PunctuationSettings /\ pc = "done") =>
    \A j \in 1..(Len(events) - 1) :
      events[j].char \in PunctuationMarks =>
        KeystrokeTime(events, j + 1) - KeystrokeTime(events, j)
          >= PlainDelay(events[j].char) + 200 * Scale

\* C33: a triggered thinking pause never creates an event: with no event emitted
\* yet (index 0) the plan is left as it is, and later it adds 500-1500 ms to the
\* delay of the most recently emitted event, whatever branch emitted it; the
\* events the iteration appends are those of its own branch
C33_ThinkingPauseFolded ==
  [][(pc = "loop" /\ pc' = "loop") =>
       LET n == Len(events)
           before == SubSeq(events', 1, n)
           added == IF n = 0 THEN 0 ELSE before[n].delayMs - events[n].delayMs
           seq == Appended
       IN /\ Len(events') > n
          /\ index = 0 => n = 0
          /\ n > 0 => before = [events EXCEPT ![n].delayMs = @ + added]
          /\ added = 0 \/ (added >= 500 * Scale /\ added <= 1500 * Scale)
          /\ added > 0 <=> lastStep'.thought
          /\ added > 0 =>
               /\ settings.useThinkingPauses
               /\ \E r \in Draws : shouldInsertThinkingPause(text, index, settings, r)
          /\ lastStep'.kind = "normal" => Len(seq) = 1 /\ seq[1].char = At(text, index)
          /\ lastStep'.kind = "transposition" =>
               Len(seq) = 6 /\ seq[1].char = At(text, index + 1)
          /\ lastStep'.kind = "mistake" =>
               seq[1].type = "type" /\ seq[1].char # At(text, index)]_vars

\* a thinking pause was folded onto the last event of a mistake sequence
C33_Witness ==
  /\ lastStep.thought /\ lastStep.kind = "normal" /\ lastStep.at = Len(text) - 1
  /\ Deletes(events) # {} /\ Len(events) >= 4
  /\ events[Len(events) - 1].delayMs >= 500 * Scale

\* C34: decideExtraLettersAfterMistake returns an integer in
\* [0, maxExtraLettersAfterMistake] for every maximum in 0..10 and every draw, 0
\* when the maximum is 0, also in the '3 or more' branch with a maximum below 3
C34_ExtraLettersWithinMax ==
  fn = "decideExtraLettersAfterMistake" =>
    LET max == fnArgs[1] IN
      /\ fnRet \in 0..max
      /\ max = 0 => fnRet = 0
      /\ (fnArgs[2] >= 900 /\ max >= 3) => fnRet >= 3

\* the '3 or more' branch was taken with a maximum of 1 and 1 was returned
C34_Witness ==
  /\ fn = "decideExtraLettersAfterMistake"
  /\ fnArgs[1] = 1 /\ fnArgs[2] >= 900 /\ fnArgs[3] > 0
  /\ fnRet = 1

\* C35: transposition and standard mistake sequences leave the burst counter and
\* the burst multiplier as they are, and their events enter the plan with the
\* delays they were created with (not burst-discounted, not scaled by the speed
\* curve, not micro-paused); a burst interrupted by a mistake goes on with the
\* same remaining count at the next normal event
C35_SequencesLeaveBurstAlone ==
  [][/\ StepOf("mistake") =>
          /\ UNCHANGED <<burstCounter, burstMultiplier>>
          /\ \E rWrong \in Draws, rand \in ExtraDraws :
               Appended = createMistakeSequence(text, index, settings, rWrong, rand,
                                                mag, mag, mag).events
     /\ StepOf("transposition") =>
          /\ UNCHANGED <<burstCounter, burstMultiplier>>
          /\ Appended = createTranspositionMistake(text, index, settings,
                                                   mag, mag, mag).events
     /\ (StepOf("normal") /\ burstCounter > 0 /\ lastStep.kind # "normal") =>
          /\ burstCounter' = burstCounter - 1
          /\ burstMultiplier' = burstMultiplier]_vars

\* a burst of five was triggered, a mistake followed, and the next normal event
\* used up one of the five
C35_Witness ==
  /\ lastStep.kind = "normal" /\ lastStep.at = 2
  /\ burstCounter = 4 /\ burstMultiplier = 3
  /\ Deletes(events) # {}
  /\ events[1].char = At(text, 0)

\* C36: no pause is folded onto a Delete event: the last event of every
\* transposition or mistake sequence and of every non-empty plan is a Type event,
\* and every Delete event of the plan has the delay getBackspaceDelay gave it,
\* which is within 40..150 ms
C36_DeletesKeepDelay ==
  /\ [](/\ Len(events) > 0 => events[Len(events)].type = "type"
        /\ \A j \in Deletes(events) :
             /\ events[j].delayMs = getBackspaceDelay(settings, mag)
             /\ events[j].delayMs >= 40 * Scale
             /\ events[j].delayMs <= 150 * Scale)
  /\ [][(StepOf("mistake") \/ StepOf("transposition")) =>
          Appended[Len(Appended)].type = "type"]_vars

\* a returned plan that ends with a mistake sequence made right after a thinking
\* pause
C36_Witness ==
  /\ pc = "done" /\ lastStep.kind = "mistake" /\ lastStep.thought
  /\ Cardinality(Deletes(events)) >= 2
  /\ events[Len(events)].type = "type"

-----------------------------------------------------------------------------
(* Properties of the wrong character *)

\* C37: the wrong character always differs from the correct one: no entry of the
\* adjacency table lists its own key, a character outside the table is replaced
\* by a letter, and chooseWrongChar(c) # c for every character and every draw
C37_WrongCharDiffers ==
  /\ \A k \in DOMAIN KEYBOARD_NEIGHBORS :
       \A n \in 1..Len(KEYBOARD_NEIGHBORS[k]) : KEYBOARD_NEIGHBORS[k][n] # k
  /\ fn = "chooseWrongChar" =>
       /\ fnRet # fnArgs[1]
       /\ fnRet \in LowerLetters \cup UpperLetters

\* a full stop was replaced by the last letter, in upper case
C37_Witness ==
  /\ fn = "chooseWrongChar"
  /\ fnArgs[1] = "." /\ fnRet = "Z"

-----------------------------------------------------------------------------
(* Properties of the executor under every control *)

\* the type-batch requests sent and not yet answered
Outstanding == inflight

\* C38: at any time at most one type-batch request is outstanding, under every
\* interleaving of Start, Pause, Resume, Stop, the toggle hotkey and batch
\* completions, so at most one injection process types at a time
C38_OneOutstandingBatch ==
  /\ Cardinality(Outstanding) <= 1
  /\ Cardinality({p \in inflight : ~p.killed /\ ~p.failed /\ p.remaining # <<>>}) <= 1

\* C39: 0 <= currentIndex <= events.length in every state, and currentIndex
\* refers to the plan currently held (the events before it are events of that
\* plan that were sent, and progress is at most 100): the completion of a batch
\* sent for an earlier plan changes nothing of the new run
C39_IndexWithinPlan ==
  /\ currentIndexRef >= 0
  /\ currentIndexRef <= Len(eventsRef)
  /\ progress <= 100
  /\ \A k \in 1..Min(currentIndexRef, Len(eventsRef)) :
       \E j \in 1..Len(sent) : sent[j] = eventsRef[k]

\* C40: in a run with no Pause and no Stop the executor eventually sends every
\* event of the plan and finishes: the index moves one batch at a time, so after
\* ceil(n / batchSize) batches (batchSize is 50 as shipped) currentIndex = n,
\* isTyping becomes false and progress becomes 100
C40_RunFinishes ==
  /\ (lastAction = "start") ~>
       (/\ ~isTyping /\ progress = 100
        /\ currentIndexRef = Len(eventsRef)
        /\ sent = eventsRef /\ inflight = {})
  /\ [](lastAction = "start" =>
          /\ currentIndexRef = Len(eventsRef) \/ currentIndexRef % batchSize = 0
          /\ \A p \in inflight :
               p.endIndex = Min(currentIndexRef + batchSize, Len(eventsRef)))

\* a plan of more than 50 events has been sent in two batches of the shipped size
\* and the run has finished
C40_Witness ==
  /\ lastAction = "start" /\ ~isTyping /\ progress = 100
  /\ batchSize = BATCH_SIZE /\ Len(eventsRef) = BATCH_SIZE + MaxTail
  /\ currentIndexRef = Len(eventsRef) /\ inflight = {} /\ timers = {}

=============================================================================
